---- MODULE Spec2Model ----
(***************************************************************************)
(* Model of threejs-viewcube: the region-configuration table (faces.js),   *)
(* the orientation synchroniser (ViewCubeMesh.setQuaternion) and the       *)
(* ViewCube object that owns both.                                         *)
(*                                                                         *)
(* Numbers.  Coordinates are fixed-point with three decimals: a JavaScript *)
(* number v is the integer v * Scale, so the literals 0.707 and 0.577 of   *)
(* the source are exact.  A distance d is an integer number of units.      *)
(* Quaternion components are elements of Z[sqrt 2]/2, which is exact for   *)
(* the cube rotations and the 90-degree correction.                        *)
(***************************************************************************)
EXTENDS Integers, Sequences, FiniteSets, TLC

\* ------------------------------------------------------------------ bounds
MaxDist == 2
MaxListeners == 3
MaxCoord == 1
MaxHits == 2

\* --------------------------------------------------------------- constants
Scale == 1000
\* sqrt(2)/2 rounded to two decimals, 0.71
EdgeFactor_Coarse == (71 * Scale) \div 100
EdgeFactor == 707
\* 1/sqrt(3) rounded to two decimals, 0.58
CornerFactor_Coarse == (58 * Scale) \div 100
CornerFactor == 577
DefaultDistance == 100
DefaultSize == 120

\* ------------------------------------------------------- JavaScript values
Absent == [given |-> FALSE]
Given(v) == [given |-> TRUE, val |-> v]

\* a || b for an optional number / an optional string
OrNumber(opt, def) == IF opt.given /\ opt.val # 0 THEN opt.val ELSE def
OrString(opt, def) == IF opt.given /\ opt.val # "" THEN opt.val ELSE def
\* a default parameter: only undefined takes the default
DefaultParam(opt, def) == IF opt.given THEN opt.val ELSE def

\* ---------------------------------------------------------------- vectors
V3(vx, vy, vz) == [x |-> vx, y |-> vy, z |-> vz]
Fx(n) == n * Scale

FACES ==
  [ TOP |-> 1, FRONT |-> 2, RIGHT |-> 3, BACK |-> 4, LEFT |-> 5, BOTTOM |-> 6,
    TOP_FRONT_EDGE |-> 7, TOP_RIGHT_EDGE |-> 8, TOP_BACK_EDGE |-> 9,
    TOP_LEFT_EDGE |-> 10,
    FRONT_RIGHT_EDGE |-> 11, BACK_RIGHT_EDGE |-> 12, BACK_LEFT_EDGE |-> 13,
    FRONT_LEFT_EDGE |-> 14,
    BOTTOM_FRONT_EDGE |-> 15, BOTTOM_RIGHT_EDGE |-> 16,
    BOTTOM_BACK_EDGE |-> 17, BOTTOM_LEFT_EDGE |-> 18,
    TOP_FRONT_RIGHT_CORNER |-> 19, TOP_BACK_RIGHT_CORNER |-> 20,
    TOP_BACK_LEFT_CORNER |-> 21, TOP_FRONT_LEFT_CORNER |-> 22,
    BOTTOM_FRONT_RIGHT_CORNER |-> 23, BOTTOM_BACK_RIGHT_CORNER |-> 24,
    BOTTOM_BACK_LEFT_CORNER |-> 25, BOTTOM_FRONT_LEFT_CORNER |-> 26 ]

Cfg(u, l, p) == [up |-> u, lookAt |-> l, position |-> p]

\* ------------------------------------------------------- faces.js: edges
getEdgeConfigs(system, d) ==
  LET e == d * EdgeFactor
      zu == V3(0, 0, Fx(1))
      yu == V3(0, Fx(1), 0)
      o  == V3(0, 0, 0)
  IN IF system = "Z-up"
     THEN (FACES.TOP_FRONT_EDGE    :> Cfg(zu, V3(0, Fx(1), 0),  V3(0, -e, e)))
       @@ (FACES.TOP_RIGHT_EDGE    :> Cfg(zu, V3(Fx(1), 0, 0),  V3(e, 0, e)))
       @@ (FACES.TOP_BACK_EDGE     :> Cfg(zu, V3(0, -Fx(1), 0), V3(0, e, e)))
       @@ (FACES.TOP_LEFT_EDGE     :> Cfg(zu, V3(-Fx(1), 0, 0), V3(-e, 0, e)))
       @@ (FACES.FRONT_RIGHT_EDGE  :> Cfg(zu, o, V3(e, -e, 0)))
       @@ (FACES.BACK_RIGHT_EDGE   :> Cfg(zu, o, V3(e, e, 0)))
       @@ (FACES.BACK_LEFT_EDGE    :> Cfg(zu, o, V3(-e, e, 0)))
       @@ (FACES.FRONT_LEFT_EDGE   :> Cfg(zu, o, V3(-e, -e, 0)))
       @@ (FACES.BOTTOM_FRONT_EDGE :> Cfg(zu, V3(0, Fx(1), 0),  V3(0, -e, -e)))
       @@ (FACES.BOTTOM_RIGHT_EDGE :> Cfg(zu, V3(Fx(1), 0, 0),  V3(e, 0, -e)))
       @@ (FACES.BOTTOM_BACK_EDGE  :> Cfg(zu, V3(0, -Fx(1), 0), V3(0, e, -e)))
       @@ (FACES.BOTTOM_LEFT_EDGE  :> Cfg(zu, V3(-Fx(1), 0, 0), V3(-e, 0, -e)))
     ELSE (FACES.TOP_FRONT_EDGE    :> Cfg(yu, o, V3(0, e, e)))
       @@ (FACES.TOP_RIGHT_EDGE    :> Cfg(yu, o, V3(e, e, 0)))
       @@ (FACES.TOP_BACK_EDGE     :> Cfg(yu, o, V3(0, e, -e)))
       @@ (FACES.TOP_LEFT_EDGE     :> Cfg(yu, o, V3(-e, e, 0)))
       @@ (FACES.FRONT_RIGHT_EDGE  :> Cfg(yu, o, V3(e, 0, e)))
       @@ (FACES.BACK_RIGHT_EDGE   :> Cfg(yu, o, V3(e, 0, -e)))
       @@ (FACES.BACK_LEFT_EDGE    :> Cfg(yu, o, V3(-e, 0, -e)))
       @@ (FACES.FRONT_LEFT_EDGE   :> Cfg(yu, o, V3(-e, 0, e)))
       @@ (FACES.BOTTOM_FRONT_EDGE :> Cfg(yu, o, V3(0, -e, e)))
       @@ (FACES.BOTTOM_RIGHT_EDGE :> Cfg(yu, o, V3(e, -e, 0)))
       @@ (FACES.BOTTOM_BACK_EDGE  :> Cfg(yu, o, V3(0, -e, -e)))
       @@ (FACES.BOTTOM_LEFT_EDGE  :> Cfg(yu, o, V3(-e, -e, 0)))

\* ----------------------------------------------------- faces.js: corners
getCornerConfigs(system, d) ==
  LET c  == d * CornerFactor
      up == IF system = "Z-up" THEN V3(0, 0, Fx(1)) ELSE V3(0, Fx(1), 0)
      o  == V3(0, 0, 0)
  IN IF system = "Z-up"
     THEN (FACES.TOP_FRONT_RIGHT_CORNER    :> Cfg(up, o, V3(c, -c, c)))
       @@ (FACES.TOP_BACK_RIGHT_CORNER     :> Cfg(up, o, V3(c, c, c)))
       @@ (FACES.TOP_BACK_LEFT_CORNER      :> Cfg(up, o, V3(-c, c, c)))
       @@ (FACES.TOP_FRONT_LEFT_CORNER     :> Cfg(up, o, V3(-c, -c, c)))
       @@ (FACES.BOTTOM_FRONT_RIGHT_CORNER :> Cfg(up, o, V3(c, -c, -c)))
       @@ (FACES.BOTTOM_BACK_RIGHT_CORNER  :> Cfg(up, o, V3(c, c, -c)))
       @@ (FACES.BOTTOM_BACK_LEFT_CORNER   :> Cfg(up, o, V3(-c, c, -c)))
       @@ (FACES.BOTTOM_FRONT_LEFT_CORNER  :> Cfg(up, o, V3(-c, -c, -c)))
     ELSE (FACES.TOP_FRONT_RIGHT_CORNER    :> Cfg(up, o, V3(c, c, c)))
       @@ (FACES.TOP_BACK_RIGHT_CORNER     :> Cfg(up, o, V3(c, c, -c)))
       @@ (FACES.TOP_BACK_LEFT_CORNER      :> Cfg(up, o, V3(-c, c, -c)))
       @@ (FACES.TOP_FRONT_LEFT_CORNER     :> Cfg(up, o, V3(-c, c, c)))
       @@ (FACES.BOTTOM_FRONT_RIGHT_CORNER :> Cfg(up, o, V3(c, -c, c)))
       @@ (FACES.BOTTOM_BACK_RIGHT_CORNER  :> Cfg(up, o, V3(c, -c, -c)))
       @@ (FACES.BOTTOM_BACK_LEFT_CORNER   :> Cfg(up, o, V3(-c, -c, -c)))
       @@ (FACES.BOTTOM_FRONT_LEFT_CORNER  :> Cfg(up, o, V3(-c, -c, c)))

\* ------------------------------------------------------- faces.js: faces
\* the six face entries of the Z-up table
ZUpFaces(d) ==
     (FACES.TOP    :> Cfg(V3(0, Fx(1), 0),  V3(0, 0, -Fx(1)), V3(0, 0, Fx(d))))
  @@ (FACES.FRONT  :> Cfg(V3(0, 0, Fx(1)),  V3(0, Fx(1), 0),  V3(0, -Fx(d), 0)))
  @@ (FACES.RIGHT  :> Cfg(V3(0, 0, Fx(1)),  V3(Fx(1), 0, 0),  V3(Fx(d), 0, 0)))
  @@ (FACES.BACK   :> Cfg(V3(0, 0, Fx(1)),  V3(0, -Fx(1), 0), V3(0, Fx(d), 0)))
  @@ (FACES.LEFT   :> Cfg(V3(0, 0, Fx(1)),  V3(-Fx(1), 0, 0), V3(-Fx(d), 0, 0)))
  @@ (FACES.BOTTOM :> Cfg(V3(0, -Fx(1), 0), V3(0, 0, Fx(1)),  V3(0, 0, -Fx(d))))

\* the six face entries of the Y-up table
YUpFaces(d) ==
     (FACES.TOP    :> Cfg(V3(0, 0, -Fx(1)), V3(0, -Fx(1), 0), V3(0, Fx(d), 0)))
  @@ (FACES.FRONT  :> Cfg(V3(0, Fx(1), 0),  V3(0, 0, -Fx(1)), V3(0, 0, Fx(d))))
  @@ (FACES.RIGHT  :> Cfg(V3(0, Fx(1), 0),  V3(-Fx(1), 0, 0), V3(Fx(d), 0, 0)))
  @@ (FACES.BACK   :> Cfg(V3(0, Fx(1), 0),  V3(0, 0, Fx(1)),  V3(0, 0, -Fx(d))))
  @@ (FACES.LEFT   :> Cfg(V3(0, Fx(1), 0),  V3(Fx(1), 0, 0),  V3(-Fx(d), 0, 0)))
  @@ (FACES.BOTTOM :> Cfg(V3(0, 0, Fx(1)),  V3(0, Fx(1), 0),  V3(0, -Fx(d), 0)))

\* the Z-up table without the corner spread
getZUpFaceConfigs_NoCorners(d) ==
  getEdgeConfigs("Z-up", d) @@ ZUpFaces(d)

\* An object spread {...a, ...b} lets the later keys win: b @@ a.
getZUpFaceConfigs(d) ==
  getCornerConfigs("Z-up", d) @@ getEdgeConfigs("Z-up", d) @@ ZUpFaces(d)

\* the Y-up table taking its edges from the other convention
getYUpFaceConfigs_ZEdges(d) ==
  getCornerConfigs("Y-up", d) @@ getEdgeConfigs("Z-up", d) @@ YUpFaces(d)

getYUpFaceConfigs(d) ==
  getCornerConfigs("Y-up", d) @@ getEdgeConfigs("Y-up", d) @@ YUpFaces(d)

\* the two conventions mixed up
getFaceConfigs_Swapped(coordinateSystem, distance) ==
  IF coordinateSystem = "Z-up"
  THEN getYUpFaceConfigs(distance)
  ELSE getZUpFaceConfigs(distance)

getFaceConfigs(coordinateSystem, distance) ==
  IF coordinateSystem = "Z-up"
  THEN getZUpFaceConfigs(distance)
  ELSE getYUpFaceConfigs(distance)

\* ------------------------------------------- THREE.Quaternion (exact form)
\* A component is the number (r + s * sqrt 2) / 2.
QN(r, s) == [r |-> r, s |-> s]
QZero == QN(0, 0)
QOne == QN(2, 0)
QHalf == QN(1, 0)
QSqrtHalf == QN(0, 1)
QNeg(a) == QN(-a.r, -a.s)

Quat(qx, qy, qz, qw) == [x |-> qx, y |-> qy, z |-> qz, w |-> qw]
QIdentity == Quat(QZero, QZero, QZero, QOne)

\* the product of two components, in quarters: (r + s * sqrt 2) / 4
QProd(a, b) == QN(a.r * b.r + 2 * a.s * b.s, a.r * b.s + a.s * b.r)
\* p1 + p2 + p3 - p4 of four products, back in halves
QSum4(p1, p2, p3, p4) ==
  QN((p1.r + p2.r + p3.r - p4.r) \div 2, (p1.s + p2.s + p3.s - p4.s) \div 2)
QSumW(p1, p2, p3, p4) ==
  QN((p1.r - p2.r - p3.r - p4.r) \div 2, (p1.s - p2.s - p3.s - p4.s) \div 2)

\* Quaternion.multiplyQuaternions(a, b)
multiplyQuaternions(a, b) ==
  Quat(QSum4(QProd(a.x, b.w), QProd(a.w, b.x), QProd(a.y, b.z), QProd(a.z, b.y)),
       QSum4(QProd(a.y, b.w), QProd(a.w, b.y), QProd(a.z, b.x), QProd(a.x, b.z)),
       QSum4(QProd(a.z, b.w), QProd(a.w, b.z), QProd(a.x, b.y), QProd(a.y, b.x)),
       QSumW(QProd(a.w, b.w), QProd(a.x, b.x), QProd(a.y, b.y), QProd(a.z, b.z)))

\* Quaternion.invert(): the conjugate (the quaternion is taken to be unit)
invert(q) == Quat(QNeg(q.x), QNeg(q.y), QNeg(q.z), q.w)

\* setFromAxisAngle((1,0,0), Math.PI / 2): (sin(pi/4), 0, 0, cos(pi/4))
zUpToYUp == Quat(QSqrtHalf, QZero, QZero, QSqrtHalf)

\* rotation.x = -Math.PI / 2 seen through Object3D.quaternion
buildRotation(coordinateSystem) ==
  IF coordinateSystem = "Z-up"
  THEN Quat(QNeg(QSqrtHalf), QZero, QZero, QSqrtHalf)
  ELSE QIdentity

\* the correction applied on the other side of the inverted quaternion
setQuaternion_Swapped(coordinateSystem, quaternion) ==
  IF coordinateSystem = "Z-up"
  THEN multiplyQuaternions(zUpToYUp, invert(quaternion))
  ELSE invert(quaternion)

\* the Y-up branch copying the camera quaternion without inverting it
setQuaternion_NoInvert(coordinateSystem, quaternion) ==
  IF coordinateSystem = "Z-up"
  THEN multiplyQuaternions(invert(quaternion), zUpToYUp)
  ELSE quaternion

\* ViewCubeMesh.setQuaternion: the quaternion the mesh ends with
setQuaternion(coordinateSystem, quaternion) ==
  IF coordinateSystem = "Z-up"
  THEN multiplyQuaternions(invert(quaternion), zUpToYUp)
  ELSE invert(quaternion)

\* ------------------------------------------------------------ input sets
\* the unit quaternions of the 24 rotations of the cube (both signs)
QComponents ==
  {QZero, QOne, QNeg(QOne), QHalf, QNeg(QHalf), QSqrtHalf, QNeg(QSqrtHalf)}
QAbs(a) == IF a.r < 0 \/ a.s < 0 THEN QNeg(a) ELSE a
CubeQuaternions ==
  { q \in [x : QComponents, y : QComponents, z : QComponents, w : QComponents] :
      LET nz == { k \in {"x", "y", "z", "w"} : q[k] # QZero }
          mags == { QAbs(q[k]) : k \in nz }
      IN \/ Cardinality(nz) = 1 /\ mags = {QOne}
         \/ Cardinality(nz) = 2 /\ mags = {QSqrtHalf}
         \/ Cardinality(nz) = 4 /\ mags = {QHalf} }

Conventions == {"Y-up", "Z-up"}
CoordinateSystemArgs == {Absent} \cup { Given(c) : c \in Conventions \cup {"z-up"} }
Distances == (-1 .. MaxDist) \cup {10, DefaultDistance}
DistanceArgs == {Absent} \cup { Given(d) : d \in Distances }
CameraDistanceOptions == {Absent} \cup { Given(d) : d \in (-1 .. MaxDist) \cup {10} }
FaceIds == 0 .. 27

\* callbacks the application may register; "boom" throws when invoked
Callbacks == {"f", "g", "boom"}
Throws(cb) == cb = "boom"
EventNames == {"faceClick", "drag"}
\* the empty name "" of an object that is not pickable
NoName == 0
\* pointer positions (clientX, clientY)
Coords == 0 .. MaxCoord
Positions == [x : Coords, y : Coords]
\* what the raycaster returns: the names of the objects hit, nearest first
HitNames == {NoName, FACES.TOP, FACES.BOTTOM_FRONT_LEFT_CORNER}
HitLists == UNION { [1 .. n -> HitNames] : n \in 0 .. MaxHits }
Sizes == {60, DefaultSize}
Corners == {"top-right", "bottom-left"}

\* ---------------------------------------------------------------- state
VARIABLES
  given,            \* the options object the application passed to the constructor
  status,           \* "constructed", or "threw" when the constructor threw
  options,          \* this._options: coordinateSystem, cameraDistance, size, position
  faceConfigs,      \* this._faceConfigs
  cubeQuaternion,   \* this._cube.quaternion
  lastCall,         \* the last call or event, what it returned and what it emitted
  eventListeners,   \* this._eventListeners: event name -> array of callbacks
  isDragging,       \* this._isDragging
  previousMousePosition, \* this._previousMousePosition
  docListeners,     \* the listener list of document: <<[type, listener], ...>>
  hovered,          \* the region the mesh highlights, NoName when none
  cursor,           \* canvas style.cursor, "" until first set
  disposed,         \* dispose() was called: the canvas has left the page
  mouse,            \* the browser: "idle", "pressed", or "released" (click due)
  pointer,          \* the browser: position of the last mousedown / mousemove
  moved,            \* the browser: the pointer moved since the button went down
  sharedUp          \* the regions whose up is the one object getCornerConfigs made

vars == <<given, status, options, faceConfigs, cubeQuaternion, lastCall,
          eventListeners, isDragging, previousMousePosition, docListeners,
          hovered, cursor, disposed, mouse, pointer, moved, sharedUp>>
\* the object outside the interaction layer
coreVars == <<given, status, options, faceConfigs, cubeQuaternion, sharedUp>>
\* the interaction layer and the browser
interactionVars == <<eventListeners, isDragging, previousMousePosition,
                     docListeners, hovered, cursor, disposed, mouse, pointer,
                     moved>>

NoCall == [op |-> "none"]

\* new ViewCube(options)
Constructor(container, coordinateSystem, cameraDistance) ==
  LET o == [coordinateSystem |-> OrString(coordinateSystem, "Z-up"),
            cameraDistance |-> OrNumber(cameraDistance, DefaultDistance),
            size |-> DefaultSize,
            position |-> "top-right"]
  IN /\ given = [container |-> container, coordinateSystem |-> coordinateSystem,
                 cameraDistance |-> cameraDistance]
     /\ options = o
     /\ lastCall = NoCall
     /\ eventListeners = << >>
     /\ isDragging = FALSE
     /\ previousMousePosition = [x |-> 0, y |-> 0]
     /\ docListeners = << >>
     /\ hovered = NoName
     /\ cursor = ""
     /\ disposed = FALSE
     /\ mouse = "idle"
     /\ pointer = [x |-> 0, y |-> 0]
     /\ moved = FALSE
     /\ IF container
        THEN /\ status = "constructed"
             /\ cubeQuaternion = buildRotation(o.coordinateSystem)
             /\ faceConfigs = getFaceConfigs(o.coordinateSystem, o.cameraDistance)
             /\ sharedUp = DOMAIN getCornerConfigs(o.coordinateSystem,
                                                   o.cameraDistance)
        ELSE /\ status = "threw"
             /\ cubeQuaternion = QIdentity
             /\ faceConfigs = << >>
             /\ sharedUp = {}

Init ==
  \E container \in BOOLEAN, cs \in CoordinateSystemArgs, cd \in CameraDistanceOptions :
    Constructor(container, cs, cd)

\* a ViewCube constructed for either convention with the default distance
InitCube ==
  \E cs \in Conventions : Constructor(TRUE, Given(cs), Absent)

\* the exported function getFaceConfigs(coordinateSystem, distance)
CallGetFaceConfigs(cs, d) ==
  /\ lastCall' = [op |-> "getFaceConfigs", coordinateSystem |-> cs, distance |-> d,
                  threw |-> FALSE,
                  ret |-> getFaceConfigs(DefaultParam(cs, "Z-up"),
                                         DefaultParam(d, DefaultDistance))]
  /\ UNCHANGED <<sharedUp, given, status, options, faceConfigs, cubeQuaternion>>
  /\ UNCHANGED interactionVars

\* a zero-based read of the table
Lookup_ZeroBased(table, key) ==
  IF key + 1 \in DOMAIN table THEN Given(table[key + 1]) ELSE Absent

\* the property access table[key]: undefined when the key is missing
Lookup(table, key) ==
  IF key \in DOMAIN table THEN Given(table[key]) ELSE Absent

\* ViewCube.getFaceConfig(faceId)
getFaceConfig(faceId) ==
  /\ status = "constructed"
  /\ lastCall' = [op |-> "getFaceConfig", faceId |-> faceId, threw |-> FALSE,
                  ret |-> Lookup(faceConfigs, faceId)]
  /\ UNCHANGED <<sharedUp, given, status, options, faceConfigs, cubeQuaternion>>
  /\ UNCHANGED interactionVars

\* ViewCube.getAllFaceConfigs(): a shallow copy of the table
getAllFaceConfigs ==
  /\ status = "constructed"
  /\ lastCall' = [op |-> "getAllFaceConfigs", threw |-> FALSE,
                  ret |-> [id \in DOMAIN faceConfigs |-> faceConfigs[id]]]
  /\ UNCHANGED coreVars
  /\ UNCHANGED interactionVars

\* an update that rotates the cube from where it stands
update_Accumulating(camera) ==
  /\ status = "constructed"
  /\ cubeQuaternion' = IF camera.given
                       THEN multiplyQuaternions(cubeQuaternion,
                              setQuaternion(options.coordinateSystem, camera.val))
                       ELSE cubeQuaternion
  /\ lastCall' = [op |-> "update", camera |-> camera]
  /\ UNCHANGED <<sharedUp, given, status, options, faceConfigs>>
  /\ UNCHANGED interactionVars

\* ViewCube.update(camera)
update(camera) ==
  /\ status = "constructed"
  /\ cubeQuaternion' = IF camera.given
                       THEN setQuaternion(options.coordinateSystem, camera.val)
                       ELSE cubeQuaternion
  /\ lastCall' = [op |-> "update", camera |-> camera]
  /\ UNCHANGED <<sharedUp, given, status, options, faceConfigs>>
  /\ UNCHANGED interactionVars

\* a setSize that rebuilds the table for the new size
setSize_Rescaling(size) ==
  /\ status = "constructed"
  /\ options' = [options EXCEPT !.size = size]
  /\ faceConfigs' = getFaceConfigs(options.coordinateSystem, size)
  /\ lastCall' = [op |-> "setSize", size |-> size]
  /\ UNCHANGED <<sharedUp, given, status, cubeQuaternion>>
  /\ UNCHANGED interactionVars

\* ViewCube.setSize(size)
setSize(size) ==
  /\ status = "constructed"
  /\ options' = [options EXCEPT !.size = size]
  /\ lastCall' = [op |-> "setSize", size |-> size]
  /\ UNCHANGED <<sharedUp, given, status, faceConfigs, cubeQuaternion>>
  /\ UNCHANGED interactionVars

\* ViewCube.setPosition(position)
setPosition(position) ==
  /\ status = "constructed"
  /\ options' = [options EXCEPT !.position = position]
  /\ lastCall' = [op |-> "setPosition", position |-> position]
  /\ UNCHANGED <<sharedUp, given, status, faceConfigs, cubeQuaternion>>
  /\ UNCHANGED interactionVars

\* --------------------------------------------- the document's listener list
\* the two functions bound once in _setupEventListeners
BoundDocumentMouseMove == "_onDocumentMouseMove"
BoundDocumentMouseUp == "_onDocumentMouseUp"

\* an addEventListener that appends whatever the list holds
addEventListener_NoDedupe(list, type, listener) ==
  Append(list, [type |-> type, listener |-> listener])

\* EventTarget.addEventListener: a listener the list already holds for the
\* type is not added again
addEventListener(list, type, listener) ==
  IF \E i \in 1 .. Len(list) : list[i] = [type |-> type, listener |-> listener]
  THEN list
  ELSE Append(list, [type |-> type, listener |-> listener])

\* EventTarget.removeEventListener
removeEventListener(list, type, listener) ==
  SelectSeq(list, LAMBDA l : l # [type |-> type, listener |-> listener])

\* document dispatches events of the type to the bound handler
Listens(type, listener) ==
  \E i \in 1 .. Len(docListeners) :
    docListeners[i] = [type |-> type, listener |-> listener]

\* both document listeners removed, as _onDocumentMouseUp and dispose do
WithoutDocumentListeners ==
  removeEventListener(
    removeEventListener(docListeners, "mousemove", BoundDocumentMouseMove),
    "mouseup", BoundDocumentMouseUp)

\* ViewCube.dispose(): the document listeners and the canvas are removed
dispose ==
  /\ status = "constructed"
  /\ docListeners' = WithoutDocumentListeners
  /\ disposed' = TRUE
  /\ lastCall' = [op |-> "dispose"]
  /\ UNCHANGED coreVars
  /\ UNCHANGED <<eventListeners, isDragging, previousMousePosition, hovered,
                 cursor, mouse, pointer, moved>>

\* --------------------------------------------------------- on, off, _emit
ListenersOf(event) ==
  IF event \in DOMAIN eventListeners THEN eventListeners[event] ELSE << >>

\* the number of registrations under all events
Registrations ==
  Len(ListenersOf("faceClick")) + Len(ListenersOf("drag"))

\* ViewCube.on(event, callback)
on(event, callback) ==
  /\ status = "constructed"
  /\ Registrations < MaxListeners
  /\ eventListeners' =
       (event :> Append(ListenersOf(event), callback)) @@ eventListeners
  /\ lastCall' = [op |-> "on", event |-> event, callback |-> callback]
  /\ UNCHANGED coreVars
  /\ UNCHANGED <<isDragging, previousMousePosition, docListeners, hovered,
                 cursor, disposed, mouse, pointer, moved>>

\* the sequence without its first occurrence of callback
RemoveFirst(listeners, callback) ==
  IF \E i \in 1 .. Len(listeners) : listeners[i] = callback
  THEN LET k == CHOOSE i \in 1 .. Len(listeners) :
                  /\ listeners[i] = callback
                  /\ \A n \in 1 .. (i - 1) : listeners[n] # callback
       IN SubSeq(listeners, 1, k - 1) \o SubSeq(listeners, k + 1, Len(listeners))
  ELSE listeners

\* an off that removes one registration only
off_FirstOnly(event, callback) ==
  /\ status = "constructed"
  /\ eventListeners' =
       IF event \in DOMAIN eventListeners
       THEN [eventListeners EXCEPT ![event] = RemoveFirst(@, callback)]
       ELSE eventListeners
  /\ lastCall' = [op |-> "off", event |-> event, callback |-> callback,
                  removed |-> Len(ListenersOf(event))
                                - Len(RemoveFirst(ListenersOf(event), callback))]
  /\ UNCHANGED coreVars
  /\ UNCHANGED <<isDragging, previousMousePosition, docListeners, hovered,
                 cursor, disposed, mouse, pointer, moved>>

\* ViewCube.off(event, callback): filter keeps the callbacks that differ
off(event, callback) ==
  /\ status = "constructed"
  /\ eventListeners' =
       IF event \in DOMAIN eventListeners
       THEN [eventListeners EXCEPT
               ![event] = SelectSeq(@, LAMBDA cb : cb # callback)]
       ELSE eventListeners
  /\ lastCall' = [op |-> "off", event |-> event, callback |-> callback,
                  removed |-> Len(ListenersOf(event))
                                - Len(SelectSeq(ListenersOf(event),
                                                LAMBDA cb : cb # callback))]
  /\ UNCHANGED coreVars
  /\ UNCHANGED <<isDragging, previousMousePosition, docListeners, hovered,
                 cursor, disposed, mouse, pointer, moved>>

\* the index of the first listener that throws, 0 when none does
FirstThrow(listeners) ==
  IF \E i \in 1 .. Len(listeners) : Throws(listeners[i])
  THEN CHOOSE i \in 1 .. Len(listeners) :
         /\ Throws(listeners[i])
         /\ \A k \in 1 .. (i - 1) : ~Throws(listeners[k])
  ELSE 0

Reverse(seq) == [i \in 1 .. Len(seq) |-> seq[Len(seq) + 1 - i]]

\* an _emit that walks the array from its end
emit_Reversed(event) ==
  LET listeners == Reverse(ListenersOf(event))
      k == FirstThrow(listeners)
  IN [calls |-> IF k = 0 THEN listeners ELSE SubSeq(listeners, 1, k),
      threw |-> k # 0]

\* an _emit that catches what a listener throws and goes on
emit_Isolating(event) ==
  [calls |-> ListenersOf(event), threw |-> FALSE]

\* ViewCube._emit(event, ...args): forEach stops at the first exception,
\* which leaves _emit
emit(event) ==
  LET listeners == ListenersOf(event)
      k == FirstThrow(listeners)
  IN [calls |-> IF k = 0 THEN listeners ELSE SubSeq(listeners, 1, k),
      threw |-> k # 0]

\* ------------------------------------------------------- pointer handlers
\* the name of the last named object of a hit list, NoName when none
FirstNamed_Farthest(hits) ==
  IF \E i \in 1 .. Len(hits) : hits[i] # NoName
  THEN hits[CHOOSE i \in 1 .. Len(hits) :
              /\ hits[i] # NoName
              /\ \A k \in (i + 1) .. Len(hits) : hits[k] = NoName]
  ELSE NoName

\* the name of the first named object of a hit list, NoName when none
FirstNamed(hits) ==
  IF \E i \in 1 .. Len(hits) : hits[i] # NoName
  THEN hits[CHOOSE i \in 1 .. Len(hits) :
              /\ hits[i] # NoName
              /\ \A k \in 1 .. (i - 1) : hits[k] = NoName]
  ELSE NoName

\* ViewCube._onMouseMove: <<hovered, cursor>> after a mousemove on the canvas
onMouseMove(hits) ==
  IF isDragging THEN <<hovered, cursor>>
  ELSE IF FirstNamed(hits) # NoName THEN <<FirstNamed(hits), "pointer">>
  ELSE <<NoName, "default">>

\* ViewCube._onClick: what a click on the canvas emits
onClick(hits) ==
  LET faceId == FirstNamed(hits)
      config == Lookup(faceConfigs, faceId)
  IN IF ~isDragging /\ faceId # NoName /\ config.given
     THEN [emitted |-> <<[event |-> "faceClick", args |-> <<faceId, config.val>>]>>,
           calls |-> emit("faceClick").calls,
           threw |-> emit("faceClick").threw]
     ELSE [emitted |-> << >>, calls |-> << >>, threw |-> FALSE]

\* ViewCube._onDocumentMouseMove: the drag emitted, and the position kept
\* (the assignment after _emit is skipped when a listener throws)
onDocumentMouseMove(pos) ==
  IF isDragging
  THEN [emitted |-> <<[event |-> "drag",
                       args |-> <<pos.x - previousMousePosition.x,
                                  pos.y - previousMousePosition.y>>]>>,
        calls |-> emit("drag").calls,
        threw |-> emit("drag").threw,
        previous |-> IF emit("drag").threw THEN previousMousePosition ELSE pos]
  ELSE [emitted |-> << >>, calls |-> << >>, threw |-> FALSE,
        previous |-> previousMousePosition]

\* --------------------------------------------------------- browser events
\* mousedown on the canvas: ViewCube._onMouseDown
MouseDown(pos) ==
  /\ status = "constructed" /\ ~disposed
  /\ mouse \in {"idle", "pressed"}
  /\ mouse' = "pressed"
  /\ pointer' = pos
  /\ moved' = (mouse = "pressed" /\ moved)
  /\ isDragging' = TRUE
  /\ previousMousePosition' = pos
  /\ cursor' = "grabbing"
  /\ docListeners' =
       addEventListener(
         addEventListener(docListeners, "mousemove", BoundDocumentMouseMove),
         "mouseup", BoundDocumentMouseUp)
  /\ lastCall' = [op |-> "mousedown", pos |-> pos, again |-> mouse = "pressed"]
  /\ UNCHANGED coreVars
  /\ UNCHANGED <<eventListeners, hovered, disposed>>

\* a mousemove: the canvas listener when the pointer is over the canvas
\* (hits given), then the document listener when it is registered
MouseMove(pos, hits) ==
  /\ status = "constructed"
  /\ mouse \in {"idle", "pressed"}
  /\ hits.given => ~disposed
  /\ pointer' = pos
  /\ moved' = (mouse = "pressed")
  /\ LET h == IF hits.given THEN onMouseMove(hits.val) ELSE <<hovered, cursor>>
     IN /\ hovered' = h[1]
        /\ cursor' = h[2]
  /\ LET r == IF Listens("mousemove", BoundDocumentMouseMove)
              THEN onDocumentMouseMove(pos)
              ELSE [emitted |-> << >>, calls |-> << >>, threw |-> FALSE,
                    previous |-> previousMousePosition]
     IN /\ previousMousePosition' = r.previous
        /\ lastCall' = [op |-> "mousemove", pos |-> pos, from |-> pointer,
                        before |-> previousMousePosition,
                        pressed |-> mouse = "pressed",
                        emitted |-> r.emitted, calls |-> r.calls,
                        threw |-> r.threw]
  /\ UNCHANGED coreVars
  /\ UNCHANGED <<eventListeners, isDragging, docListeners, disposed, mouse>>

\* a mouseup: ViewCube._onDocumentMouseUp when it is registered; a click
\* follows when the button is released over the canvas
MouseUp(overCanvas) ==
  /\ status = "constructed"
  /\ mouse = "pressed"
  /\ mouse' = IF overCanvas /\ ~disposed THEN "released" ELSE "idle"
  /\ IF Listens("mouseup", BoundDocumentMouseUp)
     THEN /\ isDragging' = FALSE
          /\ cursor' = "default"
          /\ docListeners' = WithoutDocumentListeners
     ELSE UNCHANGED <<isDragging, cursor, docListeners>>
  /\ lastCall' = [op |-> "mouseup"]
  /\ UNCHANGED coreVars
  /\ UNCHANGED <<eventListeners, previousMousePosition, hovered, disposed,
                 pointer, moved>>

\* the click the browser dispatches to the canvas after the mouseup:
\* ViewCube._onClick
Click(hits) ==
  /\ status = "constructed" /\ ~disposed
  /\ mouse = "released"
  /\ mouse' = "idle"
  /\ LET r == onClick(hits)
     IN lastCall' = [op |-> "click", hits |-> hits, afterDrag |-> moved,
                     emitted |-> r.emitted, calls |-> r.calls,
                     threw |-> r.threw]
  /\ moved' = FALSE
  /\ UNCHANGED coreVars
  /\ UNCHANGED <<eventListeners, isDragging, previousMousePosition,
                 docListeners, hovered, cursor, disposed, pointer>>

\* ------------------------------------------- the application's references
\* where the application gets a configuration object from
Sources == {"getFaceConfig", "getAllFaceConfigs", "faceClick"}

\* the application holds the configuration of the region from the source:
\* returned by getFaceConfig, an entry of what getAllFaceConfigs returned,
\* or the payload its faceClick listener was just called with
Obtained(source, id) ==
  CASE source = "getFaceConfig" -> Lookup(faceConfigs, id).given
    [] source = "getAllFaceConfigs" -> id \in DOMAIN faceConfigs
    [] source = "faceClick" ->
         /\ lastCall.op = "click"
         /\ lastCall.emitted # << >>
         /\ lastCall.calls # << >>
         /\ lastCall.emitted[1].args[1] = id

\* what the source hands out is the table's own entry: getFaceConfig
\* returns it, the spread of getAllFaceConfigs copies the outer object
\* only, _onClick passes it to _emit
IsCopy(source) ==
  CASE source = "getFaceConfig" -> FALSE
    [] source = "getAllFaceConfigs" -> FALSE
    [] source = "faceClick" -> FALSE

\* the regions whose field is the same object as the region's
SameObject(id, field) ==
  IF field = "up" /\ id \in sharedUp THEN sharedUp ELSE {id}

\* the application runs config[field][component] = value
WriteComponent(source, id, field, component, value) ==
  /\ status = "constructed"
  /\ Obtained(source, id)
  /\ faceConfigs' =
       IF IsCopy(source) THEN faceConfigs
       ELSE [r \in DOMAIN faceConfigs |->
               IF r \in SameObject(id, field)
               THEN [faceConfigs[r] EXCEPT ![field][component] = value]
               ELSE faceConfigs[r]]
  /\ lastCall' = [op |-> "write", source |-> source, id |-> id,
                  field |-> field, component |-> component]
  /\ UNCHANGED <<given, status, options, cubeQuaternion, sharedUp>>
  /\ UNCHANGED interactionVars

\* the application runs config[field] = vector, with an object of its own
WriteField(source, id, field, vector) ==
  /\ status = "constructed"
  /\ Obtained(source, id)
  /\ faceConfigs' =
       IF IsCopy(source) THEN faceConfigs
       ELSE [faceConfigs EXCEPT ![id][field] = vector]
  /\ sharedUp' =
       IF ~IsCopy(source) /\ field = "up" THEN sharedUp \ {id} ELSE sharedUp
  /\ lastCall' = [op |-> "write", source |-> source, id |-> id,
                  field |-> field, component |-> "all"]
  /\ UNCHANGED <<given, status, options, cubeQuaternion>>
  /\ UNCHANGED interactionVars

\* ------------------------------------------------------- specifications
NextFaces ==
  \E cs \in CoordinateSystemArgs, d \in DistanceArgs : CallGetFaceConfigs(cs, d)
NextQuery ==
  \E id \in FaceIds : getFaceConfig(id)
NextSync ==
  \E camera \in {Absent} \cup { Given(q) : q \in CubeQuaternions } : update(camera)
NextListeners ==
  \E event \in EventNames, cb \in Callbacks : on(event, cb) \/ off(event, cb)
\* pointer events at the positions P, with the mousemove hits M (Absent: the
\* pointer is off the canvas) and the click hits K
Gesture(P, M, K) ==
  \/ \E pos \in P : MouseDown(pos)
  \/ \E pos \in P, hits \in M : MouseMove(pos, hits)
  \/ \E overCanvas \in BOOLEAN : MouseUp(overCanvas)
  \/ \E hits \in K : Click(hits)
NextPointer ==
  Gesture(Positions, {Absent} \cup { Given(h) : h \in HitLists }, HitLists)
NextConfigure ==
  \/ getAllFaceConfigs
  \/ \E size \in Sizes : setSize(size)
  \/ \E position \in Corners : setPosition(position)
  \/ dispose

\* what the application writes into the configurations it holds
WrittenValues == {7}
NextWrites(ids) ==
  \/ \E source \in Sources, id \in ids, field \in {"up", "position"},
        component \in {"x"}, value \in WrittenValues :
       WriteComponent(source, id, field, component, value)
  \/ \E source \in Sources, id \in ids, value \in WrittenValues :
       WriteField(source, id, "up", V3(value, value, value))

Next ==
  \/ NextFaces \/ NextQuery \/ NextSync \/ NextListeners \/ NextPointer
  \/ NextConfigure \/ NextWrites(FaceIds)

\* the whole program
Spec == Init /\ [][Next]_vars
\* the pure table builder applied to every input
SpecFaces == Init /\ [][NextFaces]_vars
\* queries of a constructed ViewCube
SpecQuery == Init /\ [][NextQuery]_vars
\* per-frame synchronisation of a constructed ViewCube
SpecSync == Init /\ [][NextSync]_vars

Origin == [x |-> 0, y |-> 0]
\* camera rotations about one axis, by a quarter turn at most
FrameQuaternions ==
  { q \in CubeQuaternions :
      /\ q.w \in {QOne, QSqrtHalf}
      /\ Cardinality({ k \in {"x", "y", "z"} : q[k] # QZero }) <= 1 }

\* frames interleaved with hovering, clicking and dragging
NextFrames ==
  \/ \E q \in FrameQuaternions : update(Given(q))
  \/ Gesture({Origin}, { Given(h) : h \in HitLists }, {<< >>})
SpecFrames == InitCube /\ [][NextFrames]_vars

\* listeners registered and removed while both events are emitted
NextEmit ==
  \/ NextListeners
  \/ Gesture({Origin}, {Absent}, {<<FACES.TOP>>})
SpecEmit == InitCube /\ [][NextEmit]_vars

\* clicks on every hit list, with and without a faceClick listener
NextClick ==
  \/ on("faceClick", "f")
  \/ Gesture({Origin}, {Absent}, HitLists)
SpecClick == InitCube /\ [][NextClick]_vars

\* drags over every position, with listeners that return and that throw
NextDrag ==
  \/ \E cb \in {"f", "boom"} : on("drag", cb)
  \/ Gesture(Positions, {Absent}, {<< >>})
SpecDrag == InitCube /\ [][NextDrag]_vars

\* whole gestures: press, move, release, and the click that follows
NextGesture ==
  \/ on("faceClick", "f")
  \/ Gesture(Positions, {Absent}, {<< >>, <<FACES.TOP>>})
SpecGesture == InitCube /\ [][NextGesture]_vars

\* every interface operation and every pointer handler
NextInterface ==
  \/ \E q \in {QIdentity} : update(Given(q))
  \/ \E id \in {FACES.TOP} : getFaceConfig(id)
  \/ \E event \in EventNames : on(event, "f") \/ off(event, "f")
  \/ NextConfigure
  \/ Gesture({Origin}, {Given(<<FACES.TOP>>)}, {<<FACES.TOP>>})
SpecInterface == InitCube /\ [][NextInterface]_vars

\* an application that writes into the configurations it was handed
WrittenRegions ==
  {FACES.TOP_FRONT_RIGHT_CORNER, FACES.BOTTOM_FRONT_LEFT_CORNER}
NextCaller ==
  \/ \E id \in WrittenRegions : getFaceConfig(id)
  \/ on("faceClick", "f")
  \/ Gesture({Origin}, {Absent}, {<<FACES.BOTTOM_FRONT_LEFT_CORNER>>})
  \/ NextWrites(WrittenRegions)
SpecCaller == InitCube /\ [][NextCaller]_vars

\* =================================================== properties: the table
Abs(n) == IF n < 0 THEN -n ELSE n
RegionIds == 1 .. 26
FaceRegions == 1 .. 6
EdgeRegions == 7 .. 18
CornerRegions == 19 .. 26

\* the last call was getFaceConfigs; its effective arguments
IsTableCall == lastCall.op = "getFaceConfigs"
CallSystem == DefaultParam(lastCall.coordinateSystem, "Z-up")
CallDistance == DefaultParam(lastCall.distance, DefaultDistance)
\* a call within the contract: a known convention and a positive distance
ValidTableCall == IsTableCall /\ CallSystem \in Conventions /\ CallDistance > 0

IsVec3(v) == DOMAIN v = {"x", "y", "z"} /\ \A k \in DOMAIN v : v[k] \in Int

\* position / d, exact when every component is a multiple of d
PerUnit(p, d) == V3(p.x \div d, p.y \div d, p.z \div d)
IsMultiple(p, d) == p = V3(d * (p.x \div d), d * (p.y \div d), d * (p.z \div d))
NormSq(v) == v.x * v.x + v.y * v.y + v.z * v.z
\* a = b within 1e-9 relative, for squared lengths: |a - b| <= 2e-9 * b
SqWithinTol(a, b) == Abs(a - b) <= (2 * b) \div 1000000000
\* (||position|| / d)^2 in units of 1e-6
RelNormSq(cfg, d) == NormSq(PerUnit(cfg.position, d))

\* C1: for both conventions and every distance the table returned by
\* getFaceConfigs has exactly the keys 1..26, each with position, up, lookAt.
C1_Completeness ==
  (IsTableCall /\ CallSystem \in Conventions) =>
    /\ ~lastCall.threw
    /\ DOMAIN lastCall.ret = RegionIds
    /\ \A id \in DOMAIN lastCall.ret :
         /\ DOMAIN lastCall.ret[id] = {"position", "up", "lookAt"}
         /\ IsVec3(lastCall.ret[id].position)
         /\ IsVec3(lastCall.ret[id].up)
         /\ IsVec3(lastCall.ret[id].lookAt)

C1_Witness ==
  /\ IsTableCall /\ lastCall.coordinateSystem = Given("Y-up")
  /\ lastCall.distance = Given(-1)
  /\ Cardinality(DOMAIN lastCall.ret) = 26
  /\ lastCall.ret[26].position = V3(577, 577, -577)

\* C2 as stated: ||position|| is d for a face, d * sqrt(2)/2 for an edge and
\* d / sqrt(3) for a corner, within 1e-9 relative; for d = 10 a corner
\* position has magnitude about 5.77 (5.765 <= ||position|| < 5.775).
C2_Original ==
  ValidTableCall =>
    /\ \A id \in FaceRegions :
         SqWithinTol(RelNormSq(lastCall.ret[id], CallDistance), Scale * Scale)
    /\ \A id \in EdgeRegions :
         SqWithinTol(2 * RelNormSq(lastCall.ret[id], CallDistance), Scale * Scale)
    /\ \A id \in CornerRegions :
         SqWithinTol(3 * RelNormSq(lastCall.ret[id], CallDistance), Scale * Scale)
    /\ CallDistance = 10 =>
         \A id \in CornerRegions :
           /\ 5765 * 5765 <= NormSq(lastCall.ret[id].position)
           /\ NormSq(lastCall.ret[id].position) < 5775 * 5775

\* the absolute values of the components of v, as a bag
AbsBag(v) == [ m \in {Abs(v.x), Abs(v.y), Abs(v.z)} |->
                 Cardinality({ k \in {"x", "y", "z"} : Abs(v[k]) = m }) ]

\* C2 amended: a face position has norm exactly d; an edge position has two
\* components of magnitude 0.707 * d and one zero (norm^2 = 0.999698 d^2); a
\* corner position has three components of magnitude 0.577 * d
\* (norm^2 = 0.998787 d^2); for d = 10 each corner component is +-5.77.
C2_ComponentScaling ==
  ValidTableCall =>
    /\ \A id \in RegionIds : IsMultiple(lastCall.ret[id].position, CallDistance)
    /\ \A id \in FaceRegions :
         /\ AbsBag(lastCall.ret[id].position)
              = (0 :> 2) @@ ((1000 * CallDistance) :> 1)
         /\ RelNormSq(lastCall.ret[id], CallDistance) = 1000000
    /\ \A id \in EdgeRegions :
         /\ AbsBag(lastCall.ret[id].position)
              = (0 :> 1) @@ ((707 * CallDistance) :> 2)
         /\ RelNormSq(lastCall.ret[id], CallDistance) = 999698
    /\ \A id \in CornerRegions :
         /\ AbsBag(lastCall.ret[id].position) = ((577 * CallDistance) :> 3)
         /\ RelNormSq(lastCall.ret[id], CallDistance) = 998787
    /\ CallDistance = 10 =>
         \A id \in CornerRegions :
           AbsBag(lastCall.ret[id].position) = (5770 :> 3)

C2_Witness ==
  /\ ValidTableCall /\ CallSystem = "Z-up" /\ CallDistance = 10
  /\ lastCall.ret[FACES.TOP_FRONT_RIGHT_CORNER].position = V3(5770, -5770, 5770)
  /\ lastCall.ret[FACES.TOP_FRONT_EDGE].position = V3(0, -7070, 7070)
  /\ NormSq(lastCall.ret[FACES.TOP_FRONT_RIGHT_CORNER].position) = 99878700

\* C3: for every convention and d > 0 all 26 positions are at distance d
\* from the origin, within 1e-9 relative.
C3_Equidistant ==
  ValidTableCall =>
    \A id \in RegionIds :
      /\ IsMultiple(lastCall.ret[id].position, CallDistance)
      /\ SqWithinTol(RelNormSq(lastCall.ret[id], CallDistance), Scale * Scale)

Sub(a, b) == V3(a.x - b.x, a.y - b.y, a.z - b.z)
Cross(a, b) == V3(a.y * b.z - a.z * b.y, a.z * b.x - a.x * b.z, a.x * b.y - a.y * b.x)
ZeroVec == V3(0, 0, 0)

\* C4: for every convention, every d > 0 and each region, position is not
\* the zero vector and up is not parallel to lookAt - position.
C4_NonDegenerate ==
  ValidTableCall =>
    \A id \in RegionIds :
      LET cfg == lastCall.ret[id] IN
        /\ cfg.position # ZeroVec
        /\ Cross(cfg.up, Sub(cfg.lookAt, cfg.position)) # ZeroVec

\* C5: with distance 100, Z-up FRONT is up (0,0,1), lookAt (0,1,0),
\* position (0,-100,0) and Y-up TOP is up (0,0,-1), lookAt (0,-1,0),
\* position (0,100,0).
C5_Scenarios ==
  (IsTableCall /\ CallDistance = 100) =>
    /\ CallSystem = "Z-up" =>
         lastCall.ret[FACES.FRONT] =
           [up |-> V3(0, 0, 1000), lookAt |-> V3(0, 1000, 0),
            position |-> V3(0, -100000, 0)]
    /\ CallSystem = "Y-up" =>
         lastCall.ret[FACES.TOP] =
           [up |-> V3(0, 0, -1000), lookAt |-> V3(0, -1000, 0),
            position |-> V3(0, 100000, 0)]

C5_Witness ==
  /\ IsTableCall /\ lastCall.coordinateSystem = Given("Y-up")
  /\ lastCall.distance = Given(100)
  /\ lastCall.ret[1].position.y = 100000

\* ========================================== properties: argument checking
\* C6: getFaceConfigs with a coordinate system other than 'Y-up' or 'Z-up'
\* fails with an error; it never returns a table for a default convention.
C6_RejectsUnknownSystem ==
  (IsTableCall /\ lastCall.coordinateSystem.given
     /\ lastCall.coordinateSystem.val \notin Conventions) =>
    lastCall.threw

\* C7: a non-positive distance is rejected, by getFaceConfigs and by the
\* constructor's cameraDistance option alike; no table is built from it.
C7_RejectsNonPositiveDistance ==
  /\ (IsTableCall /\ lastCall.distance.given /\ lastCall.distance.val <= 0) =>
       lastCall.threw
  /\ (given.cameraDistance.given /\ given.cameraDistance.val <= 0) =>
       status = "threw"

\* =============================================== properties: getFaceConfig
IsQuery == lastCall.op = "getFaceConfig"
IsFullConfig(cfg) ==
  /\ DOMAIN cfg = {"position", "up", "lookAt"}
  /\ IsVec3(cfg.position) /\ IsVec3(cfg.up) /\ IsVec3(cfg.lookAt)

\* C8 as stated: getFaceConfig(id) fails explicitly for an id outside
\* [1,26] instead of returning undefined, and returns a full configuration
\* for every id in [1,26].
C8_Original ==
  IsQuery =>
    /\ lastCall.faceId \notin RegionIds => (lastCall.threw \/ lastCall.ret # Absent)
    /\ lastCall.faceId \in RegionIds =>
         (~lastCall.threw /\ lastCall.ret.given /\ IsFullConfig(lastCall.ret.val))

\* C8 amended: getFaceConfig(id) returns undefined, without throwing, for an
\* id outside [1,26], and for every id in [1,26] the full configuration the
\* table holds for that id.
C8_UndefinedOutsideRange ==
  IsQuery =>
    /\ ~lastCall.threw
    /\ lastCall.faceId \notin RegionIds => lastCall.ret = Absent
    /\ lastCall.faceId \in RegionIds =>
         /\ lastCall.ret.given
         /\ IsFullConfig(lastCall.ret.val)
         /\ lastCall.ret.val =
              getFaceConfigs(options.coordinateSystem, options.cameraDistance)[lastCall.faceId]

C8_Witness ==
  /\ IsQuery /\ lastCall.faceId = 27 /\ lastCall.ret = Absent
  /\ 26 \in DOMAIN faceConfigs /\ 27 \notin DOMAIN faceConfigs

\* ============================================= properties: synchroniser
IsSync == lastCall.op = "update" /\ lastCall.camera.given
Correction(convention) == IF convention = "Z-up" THEN zUpToYUp ELSE QIdentity

\* C9: setQuaternion(q) sets the cube rotation to invert(q) o correction,
\* correction being the identity for Y-up and +90 degrees about X for Z-up;
\* for the identity q the result is the identity (Y-up) and exactly the
\* correction (Z-up).
C9_InvertThenCorrect ==
  (IsSync /\ options.coordinateSystem \in Conventions) =>
    /\ cubeQuaternion =
         multiplyQuaternions(invert(lastCall.camera.val),
                             Correction(options.coordinateSystem))
    /\ multiplyQuaternions(lastCall.camera.val, cubeQuaternion)
         = Correction(options.coordinateSystem)
    /\ lastCall.camera.val = QIdentity =>
         /\ options.coordinateSystem = "Y-up" =>
              cubeQuaternion = Quat(QN(0, 0), QN(0, 0), QN(0, 0), QN(2, 0))
         /\ options.coordinateSystem = "Z-up" =>
              cubeQuaternion = Quat(QN(0, 1), QN(0, 0), QN(0, 0), QN(0, 1))

\* camera turned 90 degrees about Y under Z-up: the cube is at
\* (1/2, -1/2, 1/2, 1/2)
C9_Witness ==
  /\ IsSync /\ options.coordinateSystem = "Z-up"
  /\ lastCall.camera.val = Quat(QZero, QSqrtHalf, QZero, QSqrtHalf)
  /\ cubeQuaternion = Quat(QHalf, QNeg(QHalf), QHalf, QHalf)

\* C10: under Y-up the rotation set by setQuaternion(q), composed with q on
\* either side, is the identity.
C10_YUpInverse ==
  (IsSync /\ options.coordinateSystem = "Y-up") =>
    /\ multiplyQuaternions(cubeQuaternion, lastCall.camera.val) = QIdentity
    /\ multiplyQuaternions(lastCall.camera.val, cubeQuaternion) = QIdentity

C10_Witness ==
  /\ IsSync /\ options.coordinateSystem = "Y-up"
  /\ lastCall.camera.val = Quat(QHalf, QHalf, QHalf, QHalf)
  /\ cubeQuaternion = Quat(QNeg(QHalf), QNeg(QHalf), QNeg(QHalf), QHalf)

\* ============================== properties: derivation of edges and corners
Add(a, b) == V3(a.x + b.x, a.y + b.y, a.z + b.z)
Times(k, v) == V3(k * v.x, k * v.y, k * v.z)

\* the faces named in the identifier of each edge and of each corner
EdgeFaces ==
  (7 :> <<1, 2>>) @@ (8 :> <<1, 3>>) @@ (9 :> <<1, 4>>) @@ (10 :> <<1, 5>>)
  @@ (11 :> <<2, 3>>) @@ (12 :> <<4, 3>>) @@ (13 :> <<4, 5>>) @@ (14 :> <<2, 5>>)
  @@ (15 :> <<6, 2>>) @@ (16 :> <<6, 3>>) @@ (17 :> <<6, 4>>) @@ (18 :> <<6, 5>>)
CornerFaces ==
  (19 :> <<1, 2, 3>>) @@ (20 :> <<1, 4, 3>>) @@ (21 :> <<1, 4, 5>>)
  @@ (22 :> <<1, 2, 5>>) @@ (23 :> <<6, 2, 3>>) @@ (24 :> <<6, 4, 3>>)
  @@ (25 :> <<6, 4, 5>>) @@ (26 :> <<6, 2, 5>>)

\* C18: each edge position is 0.707 times the sum of the positions of its
\* two faces, each corner position 0.577 times the sum of the positions of
\* its three faces, for both conventions and every distance.
C18_SumOfFaces ==
  (IsTableCall /\ CallSystem \in Conventions) =>
    LET t == lastCall.ret IN
      /\ DOMAIN EdgeFaces = EdgeRegions /\ DOMAIN CornerFaces = CornerRegions
      /\ \A id \in EdgeRegions :
           Times(1000, t[id].position) =
             Times(707, Add(t[EdgeFaces[id][1]].position,
                            t[EdgeFaces[id][2]].position))
      /\ \A id \in CornerRegions :
           Times(1000, t[id].position) =
             Times(577, Add(t[CornerFaces[id][1]].position,
                            Add(t[CornerFaces[id][2]].position,
                                t[CornerFaces[id][3]].position)))

C18_Witness ==
  /\ IsTableCall /\ CallSystem = "Y-up" /\ CallDistance = 2
  /\ Add(lastCall.ret[FACES.BOTTOM].position, lastCall.ret[FACES.LEFT].position)
       = V3(-2000, -2000, 0)
  /\ lastCall.ret[FACES.BOTTOM_LEFT_EDGE].position = V3(-1414, -1414, 0)
  /\ lastCall.ret[FACES.BOTTOM_BACK_LEFT_CORNER].position = V3(-1154, -1154, -1154)

IsCardinal(v) ==
  /\ Cardinality({ k \in {"x", "y", "z"} : v[k] # 0 }) = 1
  /\ \A k \in {"x", "y", "z"} : v[k] \in {0, 1000, -1000}
TopBottomEdges == (7 .. 10) \cup (15 .. 18)
SideEdges == 11 .. 14

\* C19 as stated: in both conventions the lookAt of the top and bottom
\* edges is a cardinal unit direction and the lookAt of the side edges is
\* the origin.
C19_Original ==
  (IsTableCall /\ CallSystem \in Conventions) =>
    /\ \A id \in TopBottomEdges : IsCardinal(lastCall.ret[id].lookAt)
    /\ \A id \in SideEdges : lastCall.ret[id].lookAt = ZeroVec

\* C19 amended: under Z-up the lookAt of the top and bottom edges is a
\* cardinal unit direction and that of the side edges the origin; under
\* Y-up the lookAt of all twelve edges is the origin.
C19_EdgeLookAt ==
  (IsTableCall /\ CallSystem \in Conventions) =>
    /\ CallSystem = "Z-up" =>
         /\ \A id \in TopBottomEdges : IsCardinal(lastCall.ret[id].lookAt)
         /\ \A id \in SideEdges : lastCall.ret[id].lookAt = ZeroVec
    /\ CallSystem = "Y-up" =>
         \A id \in EdgeRegions : lastCall.ret[id].lookAt = ZeroVec

C19_Witness ==
  /\ IsTableCall /\ CallSystem = "Y-up"
  /\ lastCall.ret[FACES.TOP_FRONT_EDGE].lookAt = V3(0, 0, 0)
  /\ lastCall.ret[FACES.TOP_FRONT_EDGE].position.y # 0

\* C20: for every face, in both conventions and for every d > 0, lookAt is
\* the unit direction from position toward the origin: d * lookAt = -position.
C20_FacesLookAtOrigin ==
  ValidTableCall =>
    \A id \in FaceRegions :
      Times(CallDistance, lastCall.ret[id].lookAt)
        = Times(-1, lastCall.ret[id].position)

\* ============================================ properties: the interaction
\* what a fresh cube of the convention shows for the camera quaternion q
Shown(convention, q) ==
  multiplyQuaternions(invert(q), Correction(convention))

\* C11: update keeps no hidden state: a step update(camera) with quaternion
\* q leaves the cube at a rotation fixed by q and the convention alone,
\* whatever the cube rotation, hover, cursor and drag state before the
\* step were, the rotation the mesh was built with included.
C11_NoHiddenState ==
  [][ \A q \in CubeQuaternions :
        (lastCall'.op = "update" /\ lastCall'.camera = Given(q)) =>
          cubeQuaternion' = Shown(options.coordinateSystem, q) ]_vars
\* an update on a cube that earlier updates turned away from both its
\* construction rotation and the new result, made while a face is hovered
\* or a drag is under way
C11_Witness ==
  /\ IsSync
  /\ cubeQuaternion # buildRotation(options.coordinateSystem)
  /\ lastCall.camera.val # QIdentity
  /\ hovered # NoName
  /\ isDragging

\* the handler of the last event emitted something
IsEmit ==
  /\ lastCall.op \in {"click", "mousemove"}
  /\ lastCall.emitted # << >>
EmittedEvent == lastCall.emitted[1].event
OtherEvent(event) == IF event = "drag" THEN "faceClick" ELSE "drag"
Range(seq) == { seq[i] : i \in 1 .. Len(seq) }
\* the listeners of the event after the step
ListenersAfter(event) ==
  IF event \in DOMAIN eventListeners' THEN eventListeners'[event] ELSE << >>
IsPrefix(a, b) ==
  /\ Len(a) <= Len(b)
  /\ \A i \in 1 .. Len(a) : a[i] = b[i]

\* C12 as stated: an emit of 'faceClick' or 'drag' invokes every callback
\* registered under the event, once per registration, in on() order.
C12_Original ==
  IsEmit => lastCall.calls = ListenersOf(EmittedEvent)

\* C12: on() appends the callback to the array of its event and to no
\* other; an emit of 'faceClick' or 'drag' invokes the registrations of
\* that event in on() order, once each, up to and including the first
\* one that throws (all of them when none throws); a callback registered
\* only under the other event is not invoked.
C12_RegistrationOrder ==
  /\ [](IsEmit =>
         LET ls == ListenersOf(EmittedEvent)
             calls == lastCall.calls
         IN /\ IsPrefix(calls, ls)
            /\ \A i \in 1 .. (Len(calls) - 1) : ~Throws(calls[i])
            /\ Len(calls) < Len(ls) =>
                 (Len(calls) >= 1 /\ Throws(calls[Len(calls)]))
            /\ \A cb \in Range(ListenersOf(OtherEvent(EmittedEvent))) \ Range(ls) :
                 cb \notin Range(calls))
  /\ [][ lastCall'.op = "on" =>
           /\ ListenersAfter(lastCall'.event)
                = ListenersOf(lastCall'.event) \o <<lastCall'.callback>>
           /\ ListenersAfter(OtherEvent(lastCall'.event))
                = ListenersOf(OtherEvent(lastCall'.event)) ]_vars
\* two different listeners invoked in order while the other event holds a
\* listener that is not
C12_Witness ==
  /\ IsEmit
  /\ Len(lastCall.calls) = 2
  /\ lastCall.calls[1] # lastCall.calls[2]
  /\ \E cb \in Range(ListenersOf(OtherEvent(EmittedEvent))) :
       cb \notin Range(lastCall.calls)

\* C13: no error isolation: when a listener throws, the exception leaves
\* _emit and the handler that called it (_onClick, _onDocumentMouseMove),
\* the listeners registered after the throwing one are not invoked, and
\* _onDocumentMouseMove does not reach its last statement; when none
\* throws, nothing is thrown.
C13_NoErrorIsolation ==
  IsEmit =>
    LET ls == ListenersOf(EmittedEvent)
        throwing == { i \in 1 .. Len(ls) : Throws(ls[i]) }
    IN /\ lastCall.threw <=> throwing # {}
       /\ lastCall.threw =>
            /\ Len(lastCall.calls) \in throwing
            /\ \A i \in throwing : Len(lastCall.calls) <= i
            /\ EmittedEvent = "drag" => previousMousePosition = lastCall.before
\* a throwing listener with a later listener that was not invoked
C13_Witness ==
  /\ IsEmit
  /\ lastCall.threw
  /\ Len(lastCall.calls) < Len(ListenersOf(EmittedEvent))

\* C17: off(event, cb) removes every registration of cb under the event,
\* leaves the remaining listeners of the event in their order and the
\* other event's listeners as they were, and changes nothing when the
\* event has no listeners or cb is not among them; an emit invokes only
\* callbacks that are registered under its event at that time.
C17_OffRemoves ==
  /\ [][ lastCall'.op = "off" =>
           LET ev == lastCall'.event
               cb == lastCall'.callback
               before == ListenersOf(ev)
               kept == { i \in 1 .. Len(before) : before[i] # cb }
           IN /\ cb \notin Range(ListenersAfter(ev))
              /\ Len(ListenersAfter(ev)) = Cardinality(kept)
              /\ \A i \in kept :
                   ListenersAfter(ev)[Cardinality({ n \in kept : n <= i })] = before[i]
              /\ ListenersAfter(OtherEvent(ev)) = ListenersOf(OtherEvent(ev))
              /\ cb \notin Range(before) => eventListeners' = eventListeners ]_vars
  /\ [](IsEmit => Range(lastCall.calls) \subseteq Range(ListenersOf(EmittedEvent)))
\* an off that removed two registrations and left others
C17_Witness ==
  /\ lastCall.op = "off"
  /\ lastCall.removed = 2
  /\ ListenersOf(lastCall.event) # << >>

\* C14: a click emits at most one faceClick; when the ray hits a named
\* object, the click emits faceClick(faceId, config) for the first named
\* object in hit order, with faceId in 1 .. 26 and config the table entry
\* of faceId; when no hit object is named, the click emits nothing.
C14_ClickEmits ==
  lastCall.op = "click" =>
    LET hits == lastCall.hits
        named == { i \in 1 .. Len(hits) : hits[i] # NoName }
    IN /\ Len(lastCall.emitted) <= 1
       /\ named = {} => lastCall.emitted = << >>
       /\ \A i \in named :
            (\A k \in named : i <= k) =>
              /\ hits[i] \in 1 .. 26
              /\ lastCall.emitted =
                   <<[event |-> "faceClick",
                      args |-> <<hits[i], faceConfigs[hits[i]]>>]>>
\* a click whose ray hits two different named objects, with a listener
C14_Witness ==
  /\ lastCall.op = "click"
  /\ Len(lastCall.hits) = 2
  /\ lastCall.hits[1] # NoName /\ lastCall.hits[2] # NoName
  /\ lastCall.hits[1] # lastCall.hits[2]
  /\ lastCall.emitted # << >>
  /\ lastCall.calls = <<"f">>

\* C15: drag is emitted only between a canvas mousedown and the next
\* document mouseup; each mousemove in that interval emits exactly one
\* drag(deltaX, deltaY) whose deltas are the pointer position minus the
\* position of the previous mousemove (of the mousedown when there was
\* none), so that the deltas of a gesture add up to the distance from the
\* mousedown; a mousemove outside the interval emits nothing.
C15_DragDeltas ==
  lastCall.op = "mousemove" =>
    IF lastCall.pressed
    THEN lastCall.emitted =
           <<[event |-> "drag",
              args |-> <<lastCall.pos.x - lastCall.from.x,
                         lastCall.pos.y - lastCall.from.y>>]>>
    ELSE lastCall.emitted = << >>

\* C16: after construction no interface operation (update, on, off,
\* getFaceConfig, getAllFaceConfigs, setSize, setPosition, dispose) and no
\* pointer handler changes the coordinate system or an entry of the table.
C16_TableFixed ==
  [][ /\ options'.coordinateSystem = options.coordinateSystem
      /\ faceConfigs' = faceConfigs ]_vars
\* a disposed cube that was resized, moved, rotated, hovered and given a
\* listener still holds the table it was constructed with
C16_Witness ==
  /\ disposed
  /\ options.size # DefaultSize
  /\ options.position # "top-right"
  /\ Registrations > 0
  /\ hovered # NoName
  /\ cubeQuaternion # buildRotation(options.coordinateSystem)
  /\ faceConfigs = getFaceConfigs(options.coordinateSystem, options.cameraDistance)

\* C21: a press-drag-release gesture does not navigate: after mousedown
\* on the canvas, one or more document mousemove and the document mouseup,
\* the click delivered to the canvas over a named region emits no
\* faceClick.
C21_DragSuppressesClick ==
  (lastCall.op = "click" /\ lastCall.afterDrag) => lastCall.emitted = << >>

\* how many times the document's list holds the listener for the type
TimesRegistered(type, listener) ==
  Cardinality({ i \in 1 .. Len(docListeners) :
                  docListeners[i] = [type |-> type, listener |-> listener] })

\* C22: on a ViewCube that has not been disposed, the document-level
\* mousemove and mouseup handlers are registered exactly when _isDragging
\* is true, each at most once (a repeated mousedown adds no duplicate),
\* and none remains after a mouseup.
C22_DocumentListeners ==
  ~disposed =>
    /\ TimesRegistered("mousemove", BoundDocumentMouseMove)
         = (IF isDragging THEN 1 ELSE 0)
    /\ TimesRegistered("mouseup", BoundDocumentMouseUp)
         = (IF isDragging THEN 1 ELSE 0)
    /\ Len(docListeners) = (IF isDragging THEN 2 ELSE 0)
    /\ lastCall.op = "mouseup" => (docListeners = << >> /\ ~isDragging)
\* a second mousedown while the button of the first is still down
C22_Witness ==
  /\ ~disposed
  /\ lastCall.op = "mousedown"
  /\ lastCall.again
  /\ isDragging
  /\ Len(docListeners) = 2

\* C23: the region configurations are independent immutable values for
\* the caller: writing a field of a configuration obtained from
\* getFaceConfig, getAllFaceConfigs or a faceClick payload (a component of
\* its up vector included) changes neither what getFaceConfig returns
\* later for that region nor the configuration of any other region.
C23_ConfigsImmutable ==
  [][ lastCall'.op = "write" =>
        \A id \in FaceIds : Lookup(faceConfigs', id) = Lookup(faceConfigs, id) ]_vars

====
